---- MODULE Spec2Model ----
(***************************************************************************)
(* Model of mod-manager.py: a mod manager that installs mods by creating    *)
(* links in the game mods directory to entries of the mods source           *)
(* directory, and groups installed mods in named presets.                   *)
(*                                                                          *)
(* Text is modelled as sequences of one-character strings, so that          *)
(* lower(), strip(), split(), startswith() and Path.suffix are computed.    *)
(* Names of directory entries are TLA+ strings; NameChars gives their text. *)
(*                                                                          *)
(* Links are symbolic links (the os.symlink branch of mklink, lines 89-94): *)
(* Path.is_symlink() is true of a link whether or not its target exists,    *)
(* and Path.exists() follows it. Both directories exist (ensure_paths).     *)
(***************************************************************************)
EXTENDS Integers, Sequences, FiniteSets, TLC

VARIABLES src, dst, presets, cfg, dirOrder, items, queue, last

vars == <<src, dst, presets, cfg, dirOrder, items, queue, last>>

-----------------------------------------------------------------------------
(* Bounds of the model *)

\* longest member list of a preset found in presets.json at start-up
MaxMembers == 2
\* most numbers typed in one comma-separated menu command
MaxNums == 2

\* PAGE_SIZE of the menus
PAGE_SIZE == 20

-----------------------------------------------------------------------------
(* Text *)

\* characters in code point order (the part of ASCII the model uses)
Alphabet == <<" ", ",", ".",
              "A", "B", "C", "D", "E", "F", "G", "H", "I", "J", "K", "L", "M",
              "N", "O", "P", "Q", "R", "S", "T", "U", "V", "W", "X", "Y", "Z",
              "a", "b", "c", "d", "e", "f", "g", "h", "i", "j", "k", "l", "m",
              "n", "o", "p", "q", "r", "s", "t", "u", "v", "w", "x", "y", "z">>

\* position of c in code point order
Code(c) == CHOOSE i \in 1..Len(Alphabet) : Alphabet[i] = c

\* str.lower() on one character: "A".."Z" are 26 places before "a".."z"
lower_char(c) == IF Code(c) >= 4 /\ Code(c) <= 29 THEN Alphabet[Code(c) + 26] ELSE c

\* str.lower()
lower(s) == [i \in 1..Len(s) |-> lower_char(s[i])]

RECURSIVE lstrip(_)
lstrip(s) == IF s # <<>> /\ Head(s) = " " THEN lstrip(Tail(s)) ELSE s

RECURSIVE rstrip(_)
rstrip(s) == IF s # <<>> /\ s[Len(s)] = " " THEN rstrip(SubSeq(s, 1, Len(s) - 1)) ELSE s

\* str.strip()
strip(s) == rstrip(lstrip(s))

\* str.startswith(".")
startswith_dot(s) == s # <<>> /\ Head(s) = "."

\* str.split(","): the pieces between commas, empty pieces included
RECURSIVE split_comma(_, _)
split_comma(s, piece) ==
    IF s = <<>> THEN <<piece>>
    ELSE IF Head(s) = "," THEN <<piece>> \o split_comma(Tail(s), <<>>)
    ELSE split_comma(Tail(s), Append(piece, Head(s)))

\* a < b for str: lexicographic by code point
RECURSIVE str_less(_, _)
str_less(a, b) ==
    IF b = <<>> THEN FALSE
    ELSE IF a = <<>> THEN TRUE
    ELSE IF Code(Head(a)) < Code(Head(b)) THEN TRUE
    ELSE IF Code(Head(a)) > Code(Head(b)) THEN FALSE
    ELSE str_less(Tail(a), Tail(b))

\* str.rfind("."), 1-based, 0 when there is no dot
RECURSIVE rfind_dot(_, _)
rfind_dot(s, i) == IF i = 0 THEN 0 ELSE IF s[i] = "." THEN i ELSE rfind_dot(s, i - 1)

\* pathlib's Path.suffix of a final path component
suffix(s) ==
    LET i == rfind_dot(s, Len(s))
    IN  IF 1 < i /\ i < Len(s) THEN SubSeq(s, i, Len(s)) ELSE <<>>

-----------------------------------------------------------------------------
(* Names *)

\* entries the mods source directory may hold
AllNames == {"ModA", "modb.esp", "x.esp", "x.ESP", "x.txt", "foo.bar"}

\* the entries the menus work on
MainNames == {"ModA", "modb.esp"}

NameChars(n) ==
    CASE n = "ModA"     -> <<"M", "o", "d", "A">>
      [] n = "modb.esp" -> <<"m", "o", "d", "b", ".", "e", "s", "p">>
      [] n = "x.esp"    -> <<"x", ".", "e", "s", "p">>
      [] n = "x.ESP"    -> <<"x", ".", "E", "S", "P">>
      [] n = "x.txt"    -> <<"x", ".", "t", "x", "t">>
      [] n = "foo.bar"  -> <<"f", "o", "o", ".", "b", "a", "r">>

\* values of the mod_extensions setting
ExtSettings == { <<>>,
                 <<" ">>,
                 <<".", "e", "s", "p">>,
                 <<"E", "S", "P">>,
                 <<"t", "x", "t", ",", " ", ".", "e", "s", "p">>,
                 <<"b", "a", "r", ",", ",", "t", "x", "t">> }

\* orders in which the operating system may enumerate a directory
DirOrders == { <<"ModA", "modb.esp", "x.esp", "x.ESP", "x.txt", "foo.bar">>,
               <<"foo.bar", "x.txt", "x.ESP", "x.esp", "modb.esp", "ModA">> }

PresetKeys == {"P1", "P2"}

\* kinds of entry in the mods source directory
SrcKinds == {"none", "file", "dir"}

\* kinds of entry in the game mods directory: "link" is a link to the source
\* entry of the same name, "badlink" a link whose target does not exist
DstKinds == {"none", "link", "badlink", "file", "emptydir", "fulldir"}

-----------------------------------------------------------------------------
(* The file system: fs.src is the mods source directory, fs.dst the game   *)
(* mods directory, each a function from entry name to kind of entry.       *)

SrcPath(n) == [dir |-> "mods_source_dir", name |-> n]

DstPath(n) == [dir |-> "game_mods_dir", name |-> n]

\* Path.is_symlink()
is_symlink(fs, p) == p.dir = "game_mods_dir" /\ fs.dst[p.name] \in {"link", "badlink"}

\* Path.exists(): follows links, so a link counts when its target exists
exists(fs, p) ==
    IF p.dir = "mods_source_dir" THEN fs.src[p.name] # "none"
    ELSE \/ fs.dst[p.name] \in {"file", "emptydir", "fulldir"}
         \/ fs.dst[p.name] = "link" /\ fs.src[p.name] # "none"

\* Path.is_dir(): follows links
is_dir(fs, p) ==
    IF p.dir = "mods_source_dir" THEN fs.src[p.name] = "dir"
    ELSE \/ fs.dst[p.name] \in {"emptydir", "fulldir"}
         \/ fs.dst[p.name] = "link" /\ fs.src[p.name] = "dir"

\* Path.is_file(): follows links
is_file(fs, p) ==
    IF p.dir = "mods_source_dir" THEN fs.src[p.name] = "file"
    ELSE \/ fs.dst[p.name] = "file"
         \/ fs.dst[p.name] = "link" /\ fs.src[p.name] = "file"

\* the file system with the entry at p removed
without(fs, p) ==
    IF p.dir = "mods_source_dir" THEN [fs EXCEPT !.src[p.name] = "none"]
    ELSE [fs EXCEPT !.dst[p.name] = "none"]

\* os.rmdir succeeds on an empty directory only; a mod directory of the
\* source holds the mod's files
rmdir_ok(fs, p) == p.dir = "game_mods_dir" /\ fs.dst[p.name] = "emptydir"

-----------------------------------------------------------------------------
(* Helpers *)

Range(s) == {s[i] : i \in 1..Len(s)}

\* one entry of exts: e.lower().strip() if e.startswith(".") else "." + e.lower().strip()
norm_ext(e) == IF startswith_dot(e) THEN strip(lower(e)) ELSE <<".">> \o strip(lower(e))

RECURSIVE norm_exts(_)
norm_exts(pieces) ==
    IF pieces = <<>> THEN <<>>
    ELSE IF strip(Head(pieces)) # <<>>
         THEN <<norm_ext(Head(pieces))>> \o norm_exts(Tail(pieces))
         ELSE norm_exts(Tail(pieces))

parse_extensions(ext) ==
    LET exts_raw == strip(ext)
    IN  IF exts_raw = <<>> THEN [show_all |-> TRUE, exts |-> <<>>]
        ELSE [show_all |-> FALSE, exts |-> norm_exts(split_comma(exts_raw, <<>>))]

\* mklink without the test of the destination: the link replaces what is there
mklink_overwrite(fs, s, d, oserr) ==
    IF ~exists(fs, s)
    THEN [ok |-> FALSE, msg |-> "Source not found", fs |-> fs]
    ELSE IF oserr
    THEN [ok |-> FALSE, msg |-> "OSError", fs |-> fs]
    ELSE [ok |-> TRUE, msg |-> "OK", fs |-> [fs EXCEPT !.dst[d.name] = "link"]]

\* mklink with the two tests exchanged: the source is looked at first
mklink_source_first(fs, s, d, oserr) ==
    IF ~exists(fs, s)
    THEN [ok |-> FALSE, msg |-> "Source not found", fs |-> fs]
    ELSE IF exists(fs, d) \/ is_symlink(fs, d)
    THEN [ok |-> FALSE, msg |-> "Target already exists", fs |-> fs]
    ELSE IF oserr
    THEN [ok |-> FALSE, msg |-> "OSError", fs |-> fs]
    ELSE [ok |-> TRUE, msg |-> "OK", fs |-> [fs EXCEPT !.dst[d.name] = "link"]]

\* mklink(src, dest); oserr: the link-creation primitive of the platform fails
mklink(fs, s, d, oserr) ==
    IF exists(fs, d) \/ is_symlink(fs, d)
    THEN [ok |-> FALSE, msg |-> "Target already exists", fs |-> fs]
    ELSE IF ~exists(fs, s)
    THEN [ok |-> FALSE, msg |-> "Source not found", fs |-> fs]
    ELSE IF oserr
    THEN [ok |-> FALSE, msg |-> "OSError", fs |-> fs]
    ELSE [ok |-> TRUE, msg |-> "OK", fs |-> [fs EXCEPT !.dst[d.name] = "link"]]

\* unlink_path with the real directory removed with its contents (rmtree
\* instead of rmdir)
unlink_path_rmtree(fs, path, oserr) ==
    IF ~exists(fs, path) /\ ~is_symlink(fs, path)
    THEN [ok |-> FALSE, msg |-> "Already removed", fs |-> fs]
    ELSE IF oserr
    THEN [ok |-> FALSE, msg |-> IF is_dir(fs, path) /\ ~is_symlink(fs, path)
                                THEN "Not a link or not empty" ELSE "OSError", fs |-> fs]
    ELSE [ok |-> TRUE, msg |-> "OK", fs |-> without(fs, path)]

\* unlink_path(path); oserr: the removal primitive of the platform fails
unlink_path(fs, path, oserr) ==
    IF ~exists(fs, path) /\ ~is_symlink(fs, path)
    THEN [ok |-> FALSE, msg |-> "Already removed", fs |-> fs]
    ELSE IF is_dir(fs, path) /\ ~is_symlink(fs, path)
    THEN IF rmdir_ok(fs, path) /\ ~oserr
         THEN [ok |-> TRUE, msg |-> "OK", fs |-> without(fs, path)]
         ELSE [ok |-> FALSE, msg |-> "Not a link or not empty", fs |-> fs]
    ELSE IF oserr
    THEN [ok |-> FALSE, msg |-> "OSError", fs |-> fs]
    ELSE [ok |-> TRUE, msg |-> "OK", fs |-> without(fs, path)]

\* src_dir.iterdir(): the entries of the source directory, in the order the
\* operating system enumerates them
iterdir(fs, order) == SelectSeq(order, LAMBDA n : fs.src[n] # "none")

\* the sort key without lower(): (x.is_file(), x.name)
sort_key_case_sensitive(fs, n) == <<is_file(fs, SrcPath(n)), NameChars(n)>>

\* the sort key of discover_mods: (x.is_file(), x.name.lower())
sort_key(fs, n) == <<is_file(fs, SrcPath(n)), lower(NameChars(n))>>

\* tuple comparison of two sort keys (False < True)
key_less(k1, k2) ==
    IF k1[1] # k2[1] THEN k2[1] ELSE str_less(k1[2], k2[2])

\* x inserted behind every element whose key is not greater (a stable sort)
RECURSIVE insert_sorted(_, _, _)
insert_sorted(fs, done, x) ==
    IF done = <<>> THEN <<x>>
    ELSE IF key_less(sort_key(fs, x), sort_key(fs, Head(done)))
         THEN <<x>> \o done
         ELSE <<Head(done)>> \o insert_sorted(fs, Tail(done), x)

\* sorted(src_dir.iterdir(), key=...)
RECURSIVE sorted(_, _, _)
sorted(fs, todo, done) ==
    IF todo = <<>> THEN done
    ELSE sorted(fs, Tail(todo), insert_sorted(fs, done, Head(todo)))

\* the test with the suffix compared as written: p.suffix in exts
listed_case_sensitive(fs, ext, n) ==
    LET pe == parse_extensions(ext)
    IN  IF is_file(fs, SrcPath(n))
        THEN pe.show_all \/ suffix(NameChars(n)) \in Range(pe.exts)
        ELSE is_dir(fs, SrcPath(n))

\* the test of discover_mods' loop body: is p made a ModItem?
listed(fs, ext, n) ==
    LET pe == parse_extensions(ext)
    IN  IF is_file(fs, SrcPath(n))
        THEN pe.show_all \/ lower(suffix(NameChars(n))) \in Range(pe.exts)
        ELSE is_dir(fs, SrcPath(n))

\* ModItem with installed = dest.exists() alone, which follows links
ModItem_exists_only(fs, n) ==
    LET dest == DstPath(n)
    IN  [name |-> n, src |-> SrcPath(n), dest |-> dest,
         is_dir |-> is_dir(fs, SrcPath(n)),
         installed |-> exists(fs, dest)]

\* ModItem(name, src, dest, is_dir, installed) for entry n of the source
ModItem(fs, n) ==
    LET dest == DstPath(n)
    IN  [name |-> n, src |-> SrcPath(n), dest |-> dest,
         is_dir |-> is_dir(fs, SrcPath(n)),
         installed |-> exists(fs, dest) \/ is_symlink(fs, dest)]

\* discover_mods(cfg); ensure_paths has created both directories
discover_mods(fs, ext, order) ==
    LET ps   == sorted(fs, iterdir(fs, order), <<>>)
        kept == SelectSeq(ps, LAMBDA n : listed(fs, ext, n))
    IN  [i \in 1..Len(kept) |-> ModItem(fs, kept[i])]

list_installed_mods(fs, ext, order) ==
    SelectSeq(discover_mods(fs, ext, order), LAMBDA m : m.installed)

list_broken_links(fs, ext, order) ==
    SelectSeq(discover_mods(fs, ext, order), LAMBDA m : m.installed /\ ~exists(fs, m.src))

apply_mod(fs, mod, oserr) == mklink(fs, mod.src, mod.dest, oserr)

\* deactivate_mod given the source path of the mod
deactivate_mod_src(fs, mod, oserr) == unlink_path(fs, mod.src, oserr)

deactivate_mod(fs, mod, oserr) == unlink_path(fs, mod.dest, oserr)

-----------------------------------------------------------------------------
(* Presets: presets.json is a dict, modelled as the sequence of its         *)
(* [key, mods] pairs in insertion order.                                    *)

keys(ps) == [i \in 1..Len(ps) |-> ps[i].key]

\* presets.get(name, [])
presets_get(ps, name) ==
    IF \E i \in 1..Len(ps) : ps[i].key = name
    THEN ps[CHOOSE i \in 1..Len(ps) : ps[i].key = name].mods
    ELSE <<>>

\* presets = {name: mods}: the assignment that drops every other preset
presets_set_alone(ps, name, mods) == <<[key |-> name, mods |-> mods]>>

\* presets[name] = mods
presets_set(ps, name, mods) ==
    IF \E i \in 1..Len(ps) : ps[i].key = name
    THEN [i \in 1..Len(ps) |-> IF ps[i].key = name THEN [key |-> name, mods |-> mods] ELSE ps[i]]
    ELSE Append(ps, [key |-> name, mods |-> mods])

\* presets.pop(name, None)
presets_pop(ps, name) == SelectSeq(ps, LAMBDA e : e.key # name)

\* {m.name: m for m in discover_mods(cfg)}.get(nm); NoItem is None
NoItem == [name |-> "", src |-> SrcPath(""), dest |-> DstPath(""),
           is_dir |-> FALSE, installed |-> FALSE]

mods_get(mods, nm) ==
    IF \E i \in 1..Len(mods) : mods[i].name = nm
    THEN mods[CHOOSE i \in 1..Len(mods) : mods[i].name = nm]
    ELSE NoItem

\* one log line of a batch: f"{nm}: {'OK' if success else 'ERR'} ({msg})"
log_line(nm, r) == [name |-> nm, outcome |-> IF r.ok THEN "OK" ELSE "ERR", msg |-> r.msg]

\* save_preset_from_installed without "if not installed: return False, ..."
save_preset_always(fs, ps, ext, order, name) ==
    LET installed == list_installed_mods(fs, ext, order)
    IN  [ok |-> TRUE, msg |-> "saved",
         presets |-> presets_set(ps, name, [i \in 1..Len(installed) |-> installed[i].name])]

save_preset_from_installed(fs, ps, ext, order, name) ==
    LET installed == list_installed_mods(fs, ext, order)
    IN  IF installed = <<>>
        THEN [ok |-> FALSE, msg |-> "No installed mods to save", presets |-> ps]
        ELSE [ok |-> TRUE, msg |-> "saved",
              presets |-> presets_set(ps, name, [i \in 1..Len(installed) |-> installed[i].name])]

\* the loop of delete_presets_by_names
RECURSIVE delete_loop(_, _)
delete_loop(names, acc) ==
    IF names = <<>> THEN acc
    ELSE LET nm == Head(names)
         IN  IF \E i \in 1..Len(acc.presets) : acc.presets[i].key = nm
             THEN delete_loop(Tail(names), [acc EXCEPT !.presets = presets_pop(@, nm),
                                                       !.removed = @ + 1])
             ELSE delete_loop(Tail(names), [acc EXCEPT !.missing = Append(@, nm)])

delete_presets_by_names(ps, names) ==
    delete_loop(names, [presets |-> ps, removed |-> 0, missing |-> <<>>])

\* apply_loop without "if m.installed: continue"
RECURSIVE apply_loop_no_skip(_, _, _, _)
apply_loop_no_skip(names, mods, acc, oserr) ==
    IF names = <<>> THEN acc
    ELSE LET nm == Head(names)
             m  == mods_get(mods, nm)
         IN  IF m = NoItem
             THEN apply_loop_no_skip(Tail(names), mods,
                             [acc EXCEPT !.msgs = Append(@, [name |-> nm, outcome |-> "Skipped",
                                                             msg |-> "not in source"])],
                             oserr)
             ELSE LET r == apply_mod(acc.fs, m, nm \in oserr)
                  IN  apply_loop_no_skip(Tail(names), mods,
                                 [ok   |-> IF r.ok THEN acc.ok + 1 ELSE acc.ok,
                                  fail |-> IF r.ok THEN acc.fail ELSE acc.fail + 1,
                                  msgs |-> Append(acc.msgs, log_line(nm, r)),
                                  fs   |-> r.fs],
                                 oserr)

\* apply_loop that leaves the loop at the first failure
RECURSIVE apply_loop_abort(_, _, _, _)
apply_loop_abort(names, mods, acc, oserr) ==
    IF names = <<>> THEN acc
    ELSE LET nm == Head(names)
             m  == mods_get(mods, nm)
         IN  IF m = NoItem
             THEN apply_loop_abort(Tail(names), mods,
                             [acc EXCEPT !.msgs = Append(@, [name |-> nm, outcome |-> "Skipped",
                                                             msg |-> "not in source"])],
                             oserr)
             ELSE IF m.installed
             THEN apply_loop_abort(Tail(names), mods, acc, oserr)
             ELSE LET r == apply_mod(acc.fs, m, nm \in oserr)
                      acc2 == [ok   |-> IF r.ok THEN acc.ok + 1 ELSE acc.ok,
                               fail |-> IF r.ok THEN acc.fail ELSE acc.fail + 1,
                               msgs |-> Append(acc.msgs, log_line(nm, r)),
                               fs   |-> r.fs]
                  IN  IF r.ok THEN apply_loop_abort(Tail(names), mods, acc2, oserr) ELSE acc2

\* the loop of apply_preset over the member names; mods is the catalog read
\* before the loop, oserr the names whose link creation the platform refuses
RECURSIVE apply_loop(_, _, _, _)
apply_loop(names, mods, acc, oserr) ==
    IF names = <<>> THEN acc
    ELSE LET nm == Head(names)
             m  == mods_get(mods, nm)
         IN  IF m = NoItem
             THEN apply_loop(Tail(names), mods,
                             [acc EXCEPT !.msgs = Append(@, [name |-> nm, outcome |-> "Skipped",
                                                             msg |-> "not in source"])],
                             oserr)
             ELSE IF m.installed
             THEN apply_loop(Tail(names), mods, acc, oserr)
             ELSE LET r == apply_mod(acc.fs, m, nm \in oserr)
                  IN  apply_loop(Tail(names), mods,
                                 [ok   |-> IF r.ok THEN acc.ok + 1 ELSE acc.ok,
                                  fail |-> IF r.ok THEN acc.fail ELSE acc.fail + 1,
                                  msgs |-> Append(acc.msgs, log_line(nm, r)),
                                  fs   |-> r.fs],
                                 oserr)

apply_preset(fs, ps, ext, order, name, oserr) ==
    apply_loop(presets_get(ps, name), discover_mods(fs, ext, order),
               [ok |-> 0, fail |-> 0, msgs |-> <<>>, fs |-> fs], oserr)

\* the loop of deactivate_preset
RECURSIVE deactivate_loop(_, _, _, _)
deactivate_loop(names, mods, acc, oserr) ==
    IF names = <<>> THEN acc
    ELSE LET nm == Head(names)
             m  == mods_get(mods, nm)
         IN  IF m = NoItem \/ ~m.installed
             THEN deactivate_loop(Tail(names), mods, acc, oserr)
             ELSE LET r == deactivate_mod(acc.fs, m, nm \in oserr)
                  IN  deactivate_loop(Tail(names), mods,
                                      [ok   |-> IF r.ok THEN acc.ok + 1 ELSE acc.ok,
                                       fail |-> IF r.ok THEN acc.fail ELSE acc.fail + 1,
                                       msgs |-> Append(acc.msgs, log_line(nm, r)),
                                       fs   |-> r.fs],
                                      oserr)

deactivate_preset(fs, ps, ext, order, name, oserr) ==
    deactivate_loop(presets_get(ps, name), discover_mods(fs, ext, order),
                    [ok |-> 0, fail |-> 0, msgs |-> <<>>, fs |-> fs], oserr)

-----------------------------------------------------------------------------
(* The menus *)

\* page_slice(items, page)
page_slice(xs, page) ==
    LET start == (page - 1) * PAGE_SIZE
        end   == IF start + PAGE_SIZE < Len(xs) THEN start + PAGE_SIZE ELSE Len(xs)
    IN  SubSeq(xs, start + 1, end)

\* installed_set of menu_presets, from the catalog read when the menu was drawn
installed_set(seen) == {seen[i].name : i \in {j \in 1..Len(seen) : seen[j].installed}}

\* all_on of menu_presets
all_on(mods, seen) == mods # <<>> /\ \A nm \in Range(mods) : nm \in installed_set(seen)

\* the pass with the two branches exchanged
toggle_preset_swapped(fs, ps, ext, order, seen, name, oserr) ==
    IF all_on(presets_get(ps, name), seen)
    THEN [op |-> "apply_preset", res |-> apply_preset(fs, ps, ext, order, name, oserr)]
    ELSE [op |-> "deactivate_preset", res |-> deactivate_preset(fs, ps, ext, order, name, oserr)]

\* one pass of the loop "for num in nums" of menu_presets' toggle command
toggle_preset(fs, ps, ext, order, seen, name, oserr) ==
    IF all_on(presets_get(ps, name), seen)
    THEN [op |-> "deactivate_preset", res |-> deactivate_preset(fs, ps, ext, order, name, oserr)]
    ELSE [op |-> "apply_preset", res |-> apply_preset(fs, ps, ext, order, name, oserr)]

\* the loop "for num in nums" of menu_mods_toggle's toggle command
RECURSIVE mods_toggle_loop(_, _, _, _)
mods_toggle_loop(nums, shown, acc, oserr) ==
    IF nums = <<>> THEN acc
    ELSE IF ~(1 <= Head(nums) /\ Head(nums) <= Len(shown))
    THEN mods_toggle_loop(Tail(nums), shown, acc, oserr)
    ELSE LET m == shown[Head(nums)]
             r == IF m.installed THEN deactivate_mod(acc.fs, m, m.name \in oserr)
                  ELSE apply_mod(acc.fs, m, m.name \in oserr)
         IN  mods_toggle_loop(Tail(nums), shown,
                 [msgs |-> Append(acc.msgs,
                                  [name |-> m.name, outcome |-> IF r.ok THEN "OK" ELSE "ERR",
                                   msg |-> r.msg,
                                   act |-> IF m.installed THEN "Uninstall" ELSE "Install"]),
                  fs |-> r.fs],
                 oserr)

\* the loop of menu_mods_toggle's command a: uninstall all on the page
RECURSIVE uninstall_all_loop(_, _, _)
uninstall_all_loop(shown, fs, oserr) ==
    IF shown = <<>> THEN fs
    ELSE IF Head(shown).installed
    THEN uninstall_all_loop(Tail(shown), deactivate_mod(fs, Head(shown), Head(shown).name \in oserr).fs, oserr)
    ELSE uninstall_all_loop(Tail(shown), fs, oserr)

-----------------------------------------------------------------------------
(* State                                                                    *)
(*   src, dst   the two directories                                         *)
(*   presets    presets.json                                                *)
(*   cfg        the mod_extensions setting                                  *)
(*   dirOrder   the order in which the platform enumerates the source       *)
(*   items      the catalog read when the current menu was last drawn       *)
(*   queue      the numbers of a toggle command not yet processed           *)
(*   last       what the last step of the program did (op "none" after a    *)
(*              change made to the directories from outside)                *)

FS == [src |-> src, dst |-> dst]

NoDir == [n \in AllNames |-> "none"]

NoOp == [op |-> "none", name |-> "", seen |-> {}, ok |-> 0, fail |-> 0,
         msgs |-> <<>>, dstB |-> NoDir, again |-> "no"]

Done(op, name, seen, ok, fail, msgs, again) ==
    [op |-> op, name |-> name, seen |-> seen, ok |-> ok, fail |-> fail,
     msgs |-> msgs, dstB |-> dst, again |-> again]

\* the kind of source entry each name of the menus stands for
SrcKindOf(n) == IF n = "ModA" THEN "dir" ELSE "file"

\* what a user may put at a destination by hand
ForeignKinds(n) == IF n = "ModA" THEN {"emptydir", "fulldir"} ELSE {"file", "badlink"}

\* member lists of at most MaxMembers names
RECURSIVE Lists(_)
Lists(k) == IF k = 0 THEN {<<>>}
            ELSE Lists(k - 1) \cup {Append(l, n) : l \in {x \in Lists(k - 1) : Len(x) = k - 1}, n \in MainNames}

\* comma-separated numbers of a menu command: 1 to MaxNums numbers
RECURSIVE Choices(_)
Choices(k) == IF k = 0 THEN {<<>>}
              ELSE Choices(k - 1) \cup {Append(l, n) : l \in {x \in Choices(k - 1) : Len(x) = k - 1}, n \in 1..2}

Commands == Choices(MaxNums) \ {<<>>}

\* the names for which the platform refuses to create or remove a link during
\* one command (a file link needs a privilege a directory junction does not)
OsErrSets == {{}, {"modb.esp"}}

\* presets.json at start-up: written by earlier runs or by hand
InitStores ==
    {<<[key |-> "P1", mods |-> l]>> : l \in Lists(MaxMembers)}
    \cup {<<[key |-> "P1", mods |-> <<"ModA", "modb.esp">>], [key |-> "P2", mods |-> <<"modb.esp">>]>>}

TypeOK ==
    /\ src \in [AllNames -> SrcKinds]
    /\ dst \in [AllNames -> DstKinds]
    /\ cfg \in ExtSettings
    /\ dirOrder \in DirOrders
    /\ queue \in Choices(MaxNums)

Init ==
    /\ src = [n \in AllNames |-> IF n \in MainNames THEN SrcKindOf(n) ELSE "none"]
    /\ dst = NoDir
    /\ presets \in InitStores
    /\ cfg = <<"E", "S", "P">>
    /\ dirOrder = <<"ModA", "modb.esp", "x.esp", "x.ESP", "x.txt", "foo.bar">>
    /\ items = discover_mods([src |-> src, dst |-> dst], cfg, dirOrder)
    /\ queue = <<>>
    /\ last = NoOp

-----------------------------------------------------------------------------
(* Changes made to the two directories from outside the program, while it  *)
(* waits at a prompt                                                        *)

EnvDeleteSource(n) ==
    /\ queue = <<>>
    /\ src[n] # "none"
    /\ src' = [src EXCEPT ![n] = "none"]
    /\ last' = NoOp
    /\ UNCHANGED <<dst, presets, cfg, dirOrder, items, queue>>

EnvAddSource(n) ==
    /\ queue = <<>>
    /\ src[n] = "none"
    /\ src' = [src EXCEPT ![n] = SrcKindOf(n)]
    /\ last' = NoOp
    /\ UNCHANGED <<dst, presets, cfg, dirOrder, items, queue>>

EnvPlaceDest(n, k) ==
    /\ queue = <<>>
    /\ dst[n] = "none"
    /\ dst' = [dst EXCEPT ![n] = k]
    /\ last' = NoOp
    /\ UNCHANGED <<src, presets, cfg, dirOrder, items, queue>>

EnvRemoveDest(n) ==
    /\ queue = <<>>
    /\ dst[n] # "none"
    /\ dst' = [dst EXCEPT ![n] = "none"]
    /\ last' = NoOp
    /\ UNCHANGED <<src, presets, cfg, dirOrder, items, queue>>

-----------------------------------------------------------------------------
(* Commands of the menus. Every command ends at the top of the menu loop,   *)
(* which reads the catalog again (menu_mods_toggle line 363, menu_presets   *)
(* line 451).                                                               *)

\* a menu is entered or drawn again (page change, filter, unknown command)
Render ==
    /\ queue = <<>>
    /\ items' = discover_mods(FS, cfg, dirOrder)
    /\ last' = Done("render", "", {}, 0, 0, <<>>, "no")
    /\ UNCHANGED <<src, dst, presets, cfg, dirOrder, queue>>

\* menu_mods_toggle, numbers: toggle the selected mods
ModsToggle(nums, oserr) ==
    /\ queue = <<>>
    /\ LET r == mods_toggle_loop(nums, page_slice(items, 1), [msgs |-> <<>>, fs |-> FS], oserr)
       IN  /\ src' = r.fs.src
           /\ dst' = r.fs.dst
           /\ items' = discover_mods(r.fs, cfg, dirOrder)
           /\ last' = Done("mods_toggle", "", {}, 0, 0, r.msgs, "no")
    /\ UNCHANGED <<presets, cfg, dirOrder, queue>>

\* menu_mods_toggle, a: uninstall all on the page
ModsUninstallAll(oserr) ==
    /\ queue = <<>>
    /\ LET fs2 == uninstall_all_loop(page_slice(items, 1), FS, oserr)
       IN  /\ src' = fs2.src
           /\ dst' = fs2.dst
           /\ items' = discover_mods(fs2, cfg, dirOrder)
           /\ last' = Done("uninstall_all", "", installed_set(items), 0, 0, <<>>, "no")
    /\ UNCHANGED <<presets, cfg, dirOrder, queue>>

\* menu_presets, s: save the installed mods as preset name
PresetsSave(name) ==
    /\ queue = <<>>
    /\ LET r == save_preset_from_installed(FS, presets, cfg, dirOrder, name)
       IN  /\ presets' = r.presets
           /\ last' = Done("save_preset", name, {}, IF r.ok THEN 1 ELSE 0, 0, <<r.msg>>, "no")
    /\ items' = discover_mods(FS, cfg, dirOrder)
    /\ UNCHANGED <<src, dst, cfg, dirOrder, queue>>

\* menu_presets, d N,N2: delete the presets with these numbers
PresetsDelete(nums) ==
    /\ queue = <<>>
    /\ LET page_keys == page_slice(keys(presets), 1)
           valid     == SelectSeq(nums, LAMBDA num : 1 <= num /\ num <= Len(page_keys))
           to_delete == [i \in 1..Len(valid) |-> page_keys[valid[i]]]
           r         == delete_presets_by_names(presets, to_delete)
       IN  /\ presets' = r.presets
           /\ last' = Done("delete_presets", "", {}, r.removed, Len(r.missing),
                           <<to_delete, r.missing>>, "no")
    /\ items' = discover_mods(FS, cfg, dirOrder)
    /\ UNCHANGED <<src, dst, cfg, dirOrder, queue>>

\* one pass of the loop of the toggle command over nums; rest: the numbers
\* still to process. After the last one the menu is drawn again.
TogglePass(num, rest, oserr) ==
    LET page_keys == page_slice(keys(presets), 1)
    IN  IF 1 <= num /\ num <= Len(page_keys)
        THEN \E t \in {toggle_preset(FS, presets, cfg, dirOrder, items, page_keys[num], oserr)} :
                 /\ src' = t.res.fs.src
                 /\ dst' = t.res.fs.dst
                 /\ last' = Done(t.op, page_keys[num], installed_set(items),
                                 t.res.ok, t.res.fail, t.res.msgs,
                                 IF last.op = "apply_preset" /\ last.name = page_keys[num]
                                 THEN IF last.fail = 0 THEN "clean" ELSE "failed"
                                 ELSE "no")
                 /\ items' = IF rest = <<>> THEN discover_mods(t.res.fs, cfg, dirOrder) ELSE items
        ELSE /\ UNCHANGED <<src, dst>>
             /\ last' = Done("skip", "", {}, 0, 0, <<>>, "no")
             /\ items' = IF rest = <<>> THEN discover_mods(FS, cfg, dirOrder) ELSE items

\* menu_presets, numbers: toggle the selected presets; the first pass
PresetsToggle(nums, oserr) ==
    /\ queue = <<>>
    /\ TogglePass(Head(nums), Tail(nums), oserr)
    /\ queue' = Tail(nums)
    /\ UNCHANGED <<presets, cfg, dirOrder>>

\* the later passes of the same command
ToggleNext(oserr) ==
    /\ queue # <<>>
    /\ TogglePass(Head(queue), Tail(queue), oserr)
    /\ queue' = Tail(queue)
    /\ UNCHANGED <<presets, cfg, dirOrder>>

Next ==
    \/ \E n \in MainNames : EnvDeleteSource(n)
    \/ \E n \in MainNames : EnvAddSource(n)
    \/ \E n \in MainNames : \E k \in ForeignKinds(n) : EnvPlaceDest(n, k)
    \/ \E n \in MainNames : EnvRemoveDest(n)
    \/ Render
    \/ \E nums \in Commands : \E oserr \in OsErrSets : PresetsToggle(nums, oserr)
    \/ \E oserr \in OsErrSets : ToggleNext(oserr)

Spec == Init /\ [][Next]_vars

-----------------------------------------------------------------------------
(* Properties. last describes the step the program has just made; a change *)
(* from outside resets it, so PreFS is the file system that step started   *)
(* from (no step of the program writes the source directory).               *)

PreFS == [src |-> src, dst |-> last.dstB]

NamesOf(ms) == [i \in 1..Len(ms) |-> ms[i].name]

InstalledNames(fs) == Range(NamesOf(list_installed_mods(fs, cfg, dirOrder)))

DiscoveredNames(fs) == Range(NamesOf(discover_mods(fs, cfg, dirOrder)))

\* the members of the preset the last toggle pass worked on
Members == presets_get(presets, last.name)

Toggled == last.op \in {"apply_preset", "deactivate_preset"}

\* the menu has just been drawn: items is the catalog of the current state
Drawn == last.op # "none" /\ queue = <<>>

Logged(n, outcome, msg) ==
    \E i \in 1..Len(last.msgs) : last.msgs[i] = [name |-> n, outcome |-> outcome, msg |-> msg]

\* C1 (as claimed): a mod whose link is in the game mods directory and whose
\* source entry has been deleted is still returned by discover_mods, as an
\* installed entry, and list_broken_links contains it.
C1_BrokenIsReported ==
    Drawn =>
        \A n \in MainNames :
            (dst[n] = "link" /\ src[n] = "none") =>
                /\ \E i \in 1..Len(items) : items[i].name = n /\ items[i].installed
                /\ n \in Range(NamesOf(list_broken_links(FS, cfg, dirOrder)))

\* C2 (as claimed): deactivate_preset removes the dangling link of a member
\* whose source entry is gone and counts it as a success; afterwards nothing
\* is at that destination.
C2_BrokenIsReverted ==
    last.op = "deactivate_preset" =>
        \A n \in Range(Members) :
            (last.dstB[n] \in {"link", "badlink"} /\ src[n] = "none") =>
                /\ dst[n] = "none"
                /\ Logged(n, "OK", "OK")
                /\ last.ok >= 1

\* C3: every entry of the catalog has dest = game_mods_dir/name and is
\* installed iff something (file, directory, link, dangling link) is at that
\* path; list_installed_mods is the catalog restricted to the installed.
C3_InstalledIffDestOccupied ==
    Drawn =>
        /\ \A i \in 1..Len(items) :
              /\ items[i].dest = [dir |-> "game_mods_dir", name |-> items[i].name]
              /\ items[i].installed <=> dst[items[i].name] # "none"
        /\ NamesOf(list_installed_mods(FS, cfg, dirOrder))
              = SelectSeq(NamesOf(items), LAMBDA n : dst[n] # "none")

\* a dangling link at the destination of a listed mod, and an empty
\* destination of another
C3_Witness ==
    /\ Drawn
    /\ \E i, j \in 1..Len(items) :
          /\ dst[items[i].name] = "badlink" /\ items[i].installed
          /\ dst[items[j].name] = "none" /\ ~items[j].installed

C5_ToggleDecision ==
    Toggled =>
        /\ last.op = "deactivate_preset" =>
              (Members # <<>> /\ \A n \in Range(Members) : n \in InstalledNames(PreFS))
        /\ last.op = "apply_preset" =>
              /\ \A n \in InstalledNames(PreFS) :
                    /\ dst[n] = last.dstB[n]
                    /\ \A i \in 1..Len(last.msgs) : last.msgs[i].name # n
              /\ \A n \in MainNames :
                    dst[n] # last.dstB[n] =>
                        n \in Range(Members) /\ n \notin InstalledNames(PreFS) /\ dst[n] = "link"

C7_RealDirectoryKept ==
    Toggled =>
        \A n \in MainNames :
            last.dstB[n] = "fulldir" =>
                /\ dst[n] = "fulldir"
                /\ (last.op = "deactivate_preset" /\ n \in Range(Members)
                        /\ n \in InstalledNames(PreFS)) =>
                      /\ Logged(n, "ERR", "Not a link or not empty")
                      /\ \A i \in 1..Len(last.msgs) :
                            last.msgs[i].name = n => last.msgs[i].outcome = "ERR"
                      /\ last.fail >= 1

\* a revert that called unlink_path on a non-empty real directory and went
\* on to remove another member
C7_Witness ==
    /\ last.op = "deactivate_preset"
    /\ \E n \in Range(Members) :
          last.dstB[n] = "fulldir" /\ Logged(n, "ERR", "Not a link or not empty")
    /\ dst # last.dstB

\* what a batch is expected to log, computed from the member list and the
\* file system it started from
ExpectedLogNames ==
    IF last.op = "apply_preset"
    THEN SelectSeq(Members, LAMBDA n : n \notin InstalledNames(PreFS))
    ELSE SelectSeq(Members, LAMBDA n : n \in InstalledNames(PreFS))

CountOutcome(o) == Cardinality({i \in 1..Len(last.msgs) : last.msgs[i].outcome = o})

\* C8: a batch visits every member in list order whatever fails: the log has
\* one OK or ERR entry per link operation, in member order, apply one Skipped
\* entry per member that is not in the source, and succeeded and failed count
\* the OK and the ERR entries.
C8_BatchNeverAborts ==
    Toggled =>
        /\ NamesOf(last.msgs) = ExpectedLogNames
        /\ \A i \in 1..Len(last.msgs) :
              /\ last.msgs[i].outcome \in {"OK", "ERR", "Skipped"}
              /\ last.msgs[i].outcome = "Skipped" <=>
                    (last.op = "apply_preset" /\ last.msgs[i].name \notin DiscoveredNames(PreFS))
        /\ last.ok = CountOutcome("OK")
        /\ last.fail = CountOutcome("ERR")

\* a batch that went on after a failure
C8_Witness ==
    /\ Toggled
    /\ \E i, j \in 1..Len(last.msgs) :
          i < j /\ last.msgs[i].outcome = "ERR" /\ last.msgs[j].outcome = "OK"

\* C14 (as claimed): apply_preset passes over every member whose destination
\* is occupied, a member with a dangling link and no source entry included:
\* the log has no entry for it and the destination entry stays as it is.
C14_OccupiedMemberSkippedSilently ==
    last.op = "apply_preset" =>
        \A n \in Range(Members) :
            (\/ n \in InstalledNames(PreFS)
             \/ last.dstB[n] \in {"link", "badlink"} /\ src[n] = "none") =>
                /\ dst[n] = last.dstB[n]
                /\ \A i \in 1..Len(last.msgs) : last.msgs[i].name # n

\* C17 (as claimed): in a toggle command with several numbers, the pass for
\* each number after the first reverts the preset exactly when it is
\* non-empty and every member is installed at the moment of that pass.
C17_DecisionAtEachPass ==
    [][(queue # <<>> /\ last'.op \in {"apply_preset", "deactivate_preset"}) =>
          LET mods == presets_get(presets, last'.name)
          IN  last'.op = "deactivate_preset" <=>
                  (mods # <<>> /\ \A n \in Range(mods) : n \in InstalledNames(FS))]_vars

\* a member list without its repeated names, first occurrences kept
RECURSIVE dedupe(_, _)
dedupe(l, acc) ==
    IF l = <<>> THEN acc
    ELSE IF Head(l) \in Range(acc) THEN dedupe(Tail(l), acc)
    ELSE dedupe(Tail(l), Append(acc, Head(l)))

\* C18 (as claimed): apply_preset and deactivate_preset on a member list
\* with repeated names return the counts, and leave the game mods directory,
\* that they return and leave on the list without the repetitions (under
\* the same refusals of the platform).
C18_DuplicatesMeaningless ==
    Toggled =>
        \E oserr \in OsErrSets :
            LET ps1 == presets_set(presets, last.name, dedupe(Members, <<>>))
                r   == IF last.op = "apply_preset"
                       THEN apply_preset(PreFS, ps1, cfg, dirOrder, last.name, oserr)
                       ELSE deactivate_preset(PreFS, ps1, cfg, dirOrder, last.name, oserr)
            IN  r.ok = last.ok /\ r.fail = last.fail /\ r.fs.dst = dst

-----------------------------------------------------------------------------
(* The catalog alone: discover_mods on every content of the source          *)
(* directory over AllNames, every setting of ExtSettings and every          *)
(* enumeration order of DirOrders.                                          *)

InitScan ==
    /\ src \in [AllNames -> SrcKinds]
    /\ dst = NoDir
    /\ presets = <<>>
    /\ cfg \in ExtSettings
    /\ dirOrder \in DirOrders
    /\ items = <<>>
    /\ queue = <<>>
    /\ last = NoOp

NextScan == Render

SpecScan == InitScan /\ [][NextScan]_vars

\* the lower-cased suffix of each name, written out
LowerSuffix(n) ==
    CASE n = "ModA"     -> <<>>
      [] n = "modb.esp" -> <<".", "e", "s", "p">>
      [] n = "x.esp"    -> <<".", "e", "s", "p">>
      [] n = "x.ESP"    -> <<".", "e", "s", "p">>
      [] n = "x.txt"    -> <<".", "t", "x", "t">>
      [] n = "foo.bar"  -> <<".", "b", "a", "r">>

Shown(n) == \E i \in 1..Len(items) : items[i].name = n

\* C9: with an empty (or blank) mod_extensions every file and directory of
\* the source is returned; otherwise a file is returned iff its lower-cased
\* suffix is in the normalized filter and every directory is returned; for
\* the filter .esp: x.esp and x.ESP are in, x.txt is out, directory foo.bar in.
C9_ExtensionFilter ==
    Drawn =>
        /\ \A n \in AllNames :
              /\ src[n] = "none" => ~Shown(n)
              /\ src[n] = "dir" => Shown(n)
              /\ src[n] = "file" =>
                    (Shown(n) <=> \/ cfg \in {<<>>, <<" ">>}
                                  \/ LowerSuffix(n) \in Range(parse_extensions(cfg).exts))
        /\ cfg = <<".", "e", "s", "p">> =>
              /\ src["x.esp"] = "file" => Shown("x.esp")
              /\ src["x.ESP"] = "file" => Shown("x.ESP")
              /\ src["x.txt"] = "file" => ~Shown("x.txt")
              /\ src["foo.bar"] = "dir" => Shown("foo.bar")
              /\ src["x.txt"] = "dir" => Shown("x.txt")

\* the scenario of the claim, scanned
C9_Witness ==
    /\ Drawn
    /\ cfg = <<".", "e", "s", "p">>
    /\ src["x.esp"] = "file" /\ src["x.ESP"] = "file" /\ src["x.txt"] = "file"
    /\ src["foo.bar"] = "dir"
    /\ Shown("x.esp") /\ Shown("x.ESP") /\ ~Shown("x.txt") /\ Shown("foo.bar")

LowerName(m) == lower(NameChars(m.name))

\* position of name n in the enumeration order of the platform
EnumPos(n) == CHOOSE i \in 1..Len(dirOrder) : dirOrder[i] = n

OnlyModAAndModb ==
    /\ src["ModA"] = "dir" /\ src["modb.esp"] = "file"
    /\ \A n \in AllNames \ {"ModA", "modb.esp"} : src[n] = "none"
    /\ cfg \in {<<>>, <<"E", "S", "P">>, <<".", "e", "s", "p">>}

\* C10 (as claimed): in the catalog all files precede all directories, each
\* group is sorted by case-insensitive name, and directory ModA with file
\* modb.esp gives [modb.esp, ModA].
C10_FilesFirst ==
    Drawn =>
        /\ \A i, j \in 1..Len(items) :
              i < j =>
                  /\ items[i].is_dir => items[j].is_dir
                  /\ items[i].is_dir = items[j].is_dir => ~str_less(LowerName(items[j]), LowerName(items[i]))
        /\ OnlyModAAndModb => NamesOf(items) = <<"modb.esp", "ModA">>

\* C10 (amended): all directories precede all files, each group is sorted by
\* case-insensitive name, names that differ only in case keep the order in
\* which the platform enumerates them, and directory ModA with file modb.esp
\* gives [ModA, modb.esp].
C10_DirectoriesFirst ==
    Drawn =>
        /\ \A i, j \in 1..Len(items) :
              i < j =>
                  /\ items[j].is_dir => items[i].is_dir
                  /\ items[i].is_dir = items[j].is_dir =>
                        /\ ~str_less(LowerName(items[j]), LowerName(items[i]))
                        /\ LowerName(items[i]) = LowerName(items[j]) =>
                              EnumPos(items[i].name) < EnumPos(items[j].name)
        /\ OnlyModAAndModb => NamesOf(items) = <<"ModA", "modb.esp">>

\* a catalog with directories ModA and foo.bar and with files whose names
\* differ only in case
C10_Witness ==
    /\ Drawn
    /\ Len(items) >= 5
    /\ \E i, j \in 1..Len(items) :
          i < j /\ items[i].name = "foo.bar" /\ items[j].name = "ModA" /\ items[j].is_dir
    /\ \E i, j \in 1..Len(items) :
          i < j /\ ~items[i].is_dir /\ LowerName(items[i]) = LowerName(items[j])

-----------------------------------------------------------------------------
(* The preset store: saving and deleting presets between commands of the    *)
(* mods menu and changes made to the game mods directory from outside.      *)

\* start-up with presets.json holding two presets
InitMods ==
    /\ Init
    /\ presets = <<[key |-> "P1", mods |-> <<"ModA", "modb.esp">>],
                   [key |-> "P2", mods |-> <<"modb.esp">>]>>

NextStore ==
    \/ \E n \in MainNames : \E k \in ForeignKinds(n) : EnvPlaceDest(n, k)
    \/ \E n \in MainNames : EnvRemoveDest(n)
    \/ \E num \in 1..Cardinality(MainNames) : \E oserr \in OsErrSets : ModsToggle(<<num>>, oserr)
    \/ \E oserr \in OsErrSets : ModsUninstallAll(oserr)
    \/ \E name \in PresetKeys : PresetsSave(name)
    \/ \E nums \in Commands : PresetsDelete(nums)

SpecStore == InitMods /\ [][NextStore]_vars

\* the names list_installed_mods returns, from the catalog order and the
\* destination entries
Snapshot == SelectSeq(NamesOf(discover_mods(FS, cfg, dirOrder)), LAMBDA n : dst[n] # "none")

HasKey(ps, k) == k \in Range(keys(ps))

\* C11 (as claimed): saving a preset always succeeds and stores the current
\* snapshot under the name; with nothing installed the stored list becomes
\* the empty list.
C11_SaveAlwaysOverwrites ==
    last.op = "save_preset" =>
        /\ last.ok = 1
        /\ HasKey(presets, last.name)
        /\ presets_get(presets, last.name) = Snapshot

\* C11 (amended): with at least one installed mod the save succeeds and the
\* name is bound to the snapshot, overwriting any list stored before; with no
\* installed mod it fails with No installed mods to save and presets.json is
\* left as it was.
C11_SaveUnlessNothingInstalled ==
    [][last'.op = "save_preset" =>
          IF Snapshot # <<>>
          THEN /\ last'.ok = 1
               /\ HasKey(presets', last'.name)
               /\ presets_get(presets', last'.name) = Snapshot
          ELSE /\ last'.ok = 0
               /\ last'.msgs = <<"No installed mods to save">>
               /\ presets' = presets]_vars

\* a save refused with nothing installed that kept the older, non-empty list,
\* after a save that had overwritten another list
C11_Witness ==
    /\ last.op = "save_preset" /\ last.ok = 0
    /\ Snapshot = <<>>
    /\ presets_get(presets, last.name) = <<"modb.esp">>
    /\ presets_get(presets, "P2") = <<"ModA", "modb.esp">>

\* C12: after a successful save the name is bound to the names of the
\* installed mods in catalog order and every other preset is as before; the
\* commands that create and remove links, and changes from outside, leave
\* presets.json alone.
C12_SaveRoundTrip ==
    [][/\ (last'.op = "save_preset" /\ last'.ok = 1) =>
             /\ src' = src /\ dst' = dst
             /\ presets_get(presets', last'.name) = Snapshot
             /\ HasKey(presets', last'.name)
             /\ \A k \in PresetKeys \ {last'.name} :
                   /\ HasKey(presets', k) <=> HasKey(presets, k)
                   /\ presets_get(presets', k) = presets_get(presets, k)
       /\ last'.op \in {"mods_toggle", "uninstall_all", "none"} => presets' = presets]_vars

\* a preset saved with both mods installed, another preset beside it, and
\* the links removed afterwards
C12_Witness ==
    /\ last.op \in {"mods_toggle", "uninstall_all"}
    /\ presets_get(presets, "P2") = <<"ModA", "modb.esp">>
    /\ HasKey(presets, "P1")
    /\ Snapshot = <<>>

\* C13 (as claimed): delete_presets_by_names(names) returns removed and
\* missing with removed + len(missing) = len(names); missing is exactly the
\* requested names that were not in the store; afterwards no requested name
\* is in the store and every other preset is as before.
C13_DeleteByNames ==
    [][last'.op = "delete_presets" =>
          LET names   == last'.msgs[1]
              missing == last'.msgs[2]
          IN  /\ last'.ok + Len(missing) = Len(names)
              /\ last'.fail = Len(missing)
              /\ missing = SelectSeq(names, LAMBDA nm : ~HasKey(presets, nm))
              /\ \A nm \in Range(names) : ~HasKey(presets', nm)
              /\ presets' = SelectSeq(presets, LAMBDA e : e.key \notin Range(names))]_vars

-----------------------------------------------------------------------------
(* The mods menu beside the presets menu, with one store of two presets:    *)
(* every command that creates or removes a link, on a catalog that changes  *)
(* from outside may have made stale.                                        *)

NextMods ==
    \/ Next
    \/ \E nums \in Commands : \E oserr \in OsErrSets : ModsToggle(nums, oserr)
    \/ \E oserr \in OsErrSets : ModsUninstallAll(oserr)

SpecMods == InitMods /\ [][NextMods]_vars

\* C15: mklink tests the destination before the source and changes nothing
\* when it fails: with anything at dest, a dangling link included, it answers
\* Target already exists whatever the source is; else with no source entry
\* it answers Source not found; when it succeeds the one change is the new
\* link at dest. Stated on the toggle commands of the mods menu that make one
\* link operation.
C15_MklinkPreconditions ==
    [][(last'.op = "mods_toggle" /\ Len(last'.msgs) = 1 /\ last'.msgs[1].act = "Install") =>
          LET e == last'.msgs[1]
              n == e.name
          IN  /\ src' = src
              /\ IF dst[n] # "none"
                 THEN e.outcome = "ERR" /\ e.msg = "Target already exists" /\ dst' = dst
                 ELSE IF src[n] = "none"
                 THEN e.outcome = "ERR" /\ e.msg = "Source not found" /\ dst' = dst
                 ELSE IF e.outcome = "OK"
                 THEN dst' = [dst EXCEPT ![n] = "link"]
                 ELSE dst' = dst]_vars

\* mklink has been called with a dangling link at dest and no source entry
C15_Witness ==
    /\ last.op = "mods_toggle" /\ Len(last.msgs) = 1
    /\ last.msgs[1].act = "Install" /\ last.msgs[1].msg = "Target already exists"
    /\ src[last.msgs[1].name] = "none"
    /\ dst[last.msgs[1].name] = "badlink"

\* the names a step that has just been made was allowed to remove from the
\* game mods directory: the installed mods of the catalog it worked on
Deactivated ==
    CASE last'.op = "deactivate_preset" ->
             Range(presets_get(presets, last'.name)) \cap InstalledNames(FS)
      [] last'.op = "uninstall_all" -> installed_set(items)
      [] last'.op = "mods_toggle" ->
             {last'.msgs[i].name : i \in {j \in 1..Len(last'.msgs) : last'.msgs[j].act = "Uninstall"}}
      [] OTHER -> {}

-----------------------------------------------------------------------------
(* apply_preset and deactivate_preset one member at a time, with changes to *)
(* the game mods directory from outside between the reading of the catalog  *)
(* and each link operation. Here items is the catalog the batch read (mods, *)
(* lines 177 and 199), queue the positions of the member list still to      *)
(* process, and last the counts and the log so far, with dstB the game mods *)
(* directory as the catalog saw it.                                         *)

BatchOps == {"apply_preset", "deactivate_preset"}

\* the call: the catalog is read and the loop entered
BatchStart(op, name) ==
    /\ queue = <<>>
    /\ items' = discover_mods(FS, cfg, dirOrder)
    /\ queue' = [i \in 1..Len(presets_get(presets, name)) |-> i]
    /\ last' = Done(op, name, {}, 0, 0, <<>>, "no")
    /\ UNCHANGED <<src, dst, presets, cfg, dirOrder>>

\* one pass of the loop "for nm in presets.get(name, [])"
BatchStep(oserr) ==
    /\ queue # <<>>
    /\ LET nm  == presets_get(presets, last.name)[Head(queue)]
           acc == [ok |-> last.ok, fail |-> last.fail, msgs |-> last.msgs, fs |-> FS]
       IN  \E r \in {IF last.op = "apply_preset"
                      THEN apply_loop(<<nm>>, items, acc, oserr)
                      ELSE deactivate_loop(<<nm>>, items, acc, oserr)} :
               /\ src' = r.fs.src
               /\ dst' = r.fs.dst
               /\ last' = [last EXCEPT !.ok = r.ok, !.fail = r.fail, !.msgs = r.msgs]
    /\ queue' = Tail(queue)
    /\ UNCHANGED <<presets, cfg, dirOrder, items>>

\* changes from outside while the batch runs
RacePlaceDest(n, k) ==
    /\ queue # <<>>
    /\ dst[n] = "none"
    /\ dst' = [dst EXCEPT ![n] = k]
    /\ UNCHANGED <<src, presets, cfg, dirOrder, items, queue, last>>

RaceRemoveDest(n) ==
    /\ queue # <<>>
    /\ dst[n] # "none"
    /\ dst' = [dst EXCEPT ![n] = "none"]
    /\ UNCHANGED <<src, presets, cfg, dirOrder, items, queue, last>>

NextRace ==
    \/ \E n \in MainNames : \E k \in ForeignKinds(n) : EnvPlaceDest(n, k)
    \/ \E n \in MainNames : EnvRemoveDest(n)
    \/ \E op \in BatchOps : \E name \in PresetKeys : BatchStart(op, name)
    \/ \E oserr \in OsErrSets : BatchStep(oserr)
    \/ \E n \in MainNames : \E k \in ForeignKinds(n) : RacePlaceDest(n, k)
    \/ \E n \in MainNames : RaceRemoveDest(n)

SpecRace == Init /\ [][NextRace]_vars

\* the member the next pass of the running batch works on
Current == presets_get(presets, last.name)[Head(queue)]

Stepped == queue # <<>> /\ queue' = Tail(queue)

\* C16 (as claimed): a member whose destination has changed since the batch
\* read the catalog gets an ERR entry (Target already exists or Already
\* removed) and is counted in failed, and its destination entry is left.
C16_ChangedMemberIsErr ==
    [][(Stepped /\ dst[Current] # last.dstB[Current]) =>
          /\ \E msg \in {"Target already exists", "Already removed"} :
                last'.msgs = Append(last.msgs, [name |-> Current, outcome |-> "ERR", msg |-> msg])
          /\ last'.fail = last.fail + 1
          /\ last'.ok = last.ok
          /\ dst' = dst]_vars

\* C16 (amended): a member the catalog read as not installed whose
\* destination has been occupied since gets ERR Target already exists from
\* apply_preset, a member the catalog read as installed whose destination
\* has been emptied since gets ERR Already removed from deactivate_preset;
\* both are counted in failed and change nothing. apply_preset passes over a
\* member the catalog read as installed without a log entry whatever has
\* happened to its destination, and never changes an existing entry. The
\* batch goes on with the next member in every case.
C16_StaleMemberIsErr ==
    [][Stepped =>
          /\ queue' = Tail(queue) /\ last'.op = last.op /\ last'.name = last.name
          /\ (last.op = "apply_preset" /\ last.dstB[Current] = "none" /\ dst[Current] # "none") =>
                /\ last'.msgs = Append(last.msgs, [name |-> Current, outcome |-> "ERR",
                                                     msg |-> "Target already exists"])
                /\ last'.fail = last.fail + 1 /\ last'.ok = last.ok
                /\ dst' = dst
          /\ (last.op = "deactivate_preset" /\ last.dstB[Current] # "none" /\ dst[Current] = "none") =>
                /\ last'.msgs = Append(last.msgs, [name |-> Current, outcome |-> "ERR",
                                                     msg |-> "Already removed"])
                /\ last'.fail = last.fail + 1 /\ last'.ok = last.ok
                /\ dst' = dst
          /\ (last.op = "apply_preset" /\ last.dstB[Current] # "none") =>
                /\ last'.msgs = last.msgs /\ last'.fail = last.fail /\ last'.ok = last.ok
                /\ dst' = dst
          /\ last.op = "apply_preset" =>
                \A n \in AllNames : dst[n] # "none" => dst'[n] = dst[n]]_vars

\* a finished apply_preset whose first member had its destination occupied
\* from outside after the catalog was read, and whose second member was linked
C16_Witness ==
    /\ last.op = "apply_preset" /\ queue = <<>>
    /\ Len(last.msgs) = 2
    /\ last.msgs[1].outcome = "ERR" /\ last.msgs[1].msg = "Target already exists"
    /\ last.dstB[last.msgs[1].name] = "none"
    /\ dst[last.msgs[1].name] \in ForeignKinds(last.msgs[1].name)
    /\ last.msgs[2].outcome = "OK"
    /\ last.fail = 1 /\ last.ok = 1

-----------------------------------------------------------------------------
(* parse_extensions against the normal form of a setting *)

\* trimmed, lower-cased, with one leading dot
normal_form(e) ==
    LET t == strip(lower(e))
    IN  IF startswith_dot(t) THEN t ELSE <<".">> \o t

\* the normal forms of the non-blank entries of a split setting, in order
RECURSIVE normal_forms(_)
normal_forms(pieces) ==
    IF pieces = <<>> THEN <<>>
    ELSE IF strip(Head(pieces)) = <<>> THEN normal_forms(Tail(pieces))
    ELSE <<normal_form(Head(pieces))>> \o normal_forms(Tail(pieces))

\* C19 (as claimed): an empty or blank setting means show all; otherwise
\* parse_extensions returns, for every non-blank comma-separated entry in
\* order, the entry trimmed and lower-cased with exactly one leading dot,
\* whether or not it was written with a dot or with blanks around it.
C19_ExtensionsNormalized ==
    Drawn =>
        LET pe == parse_extensions(cfg)
        IN  /\ pe.show_all <=> strip(cfg) = <<>>
            /\ pe.exts = IF strip(cfg) = <<>> THEN <<>>
                         ELSE normal_forms(split_comma(cfg, <<>>))
            /\ \A i \in 1..Len(pe.exts) :
                  /\ Len(pe.exts[i]) >= 2
                  /\ pe.exts[i][1] = "." /\ pe.exts[i][2] # "."

-----------------------------------------------------------------------------
(* The round trip: a preset is saved from the installed mods, reverted with *)
(* deactivate_preset and applied with apply_preset, nothing else happening  *)
(* in between. last.seen keeps the names list_installed_mods returned when  *)
(* the preset was saved, last.again whether the platform has refused a link *)
(* operation of the round trip.                                             *)

Refused(msgs) == \E i \in 1..Len(msgs) : msgs[i].outcome = "ERR" /\ msgs[i].msg = "OSError"

\* deactivate_preset(cfg, name) right after the save of name
RoundRevert(name, oserr) ==
    /\ queue = <<>>
    /\ last.op = "save_preset" /\ last.ok = 1 /\ last.name = name
    /\ \E r \in {deactivate_preset(FS, presets, cfg, dirOrder, name, oserr)} :
           /\ src' = r.fs.src
           /\ dst' = r.fs.dst
           /\ last' = Done("deactivate_preset", name, installed_set(items), r.ok, r.fail, r.msgs,
                           IF Refused(r.msgs) THEN "round_refused" ELSE "round")
           /\ items' = discover_mods(r.fs, cfg, dirOrder)
    /\ UNCHANGED <<presets, cfg, dirOrder, queue>>

\* apply_preset(cfg, name) right after that revert
RoundApply(name, oserr) ==
    /\ queue = <<>>
    /\ last.op = "deactivate_preset" /\ last.again \in {"round", "round_refused"}
    /\ last.name = name
    /\ \E r \in {apply_preset(FS, presets, cfg, dirOrder, name, oserr)} :
           /\ src' = r.fs.src
           /\ dst' = r.fs.dst
           /\ last' = Done("apply_preset", name, last.seen, r.ok, r.fail, r.msgs,
                           IF last.again = "round_refused" \/ Refused(r.msgs)
                           THEN "round_refused" ELSE "round")
           /\ items' = discover_mods(r.fs, cfg, dirOrder)
    /\ UNCHANGED <<presets, cfg, dirOrder, queue>>

NextRound ==
    \/ \E n \in MainNames : \E k \in ForeignKinds(n) : EnvPlaceDest(n, k)
    \/ \E n \in MainNames : EnvRemoveDest(n)
    \/ \E num \in 1..Cardinality(MainNames) : \E oserr \in OsErrSets : ModsToggle(<<num>>, oserr)
    \/ \E name \in PresetKeys : PresetsSave(name)
    \/ \E name \in PresetKeys : \E oserr \in OsErrSets : RoundRevert(name, oserr)
    \/ \E name \in PresetKeys : \E oserr \in OsErrSets : RoundApply(name, oserr)

SpecRound == InitMods /\ [][NextRound]_vars

RoundDone == last.op = "apply_preset" /\ last.again \in {"round", "round_refused"}

\* C21: after save, deactivate_preset and apply_preset of the same preset,
\* with the source directory as it was and no link operation refused by the
\* platform, list_installed_mods returns the set of names it returned when
\* the preset was saved.
C21_SnapshotRoundTrip ==
    (RoundDone /\ last.again = "round") =>
        /\ InstalledNames(FS) = last.seen
        /\ {n \in MainNames : dst[n] # "none"} = last.seen
        /\ last.seen = Range(Members)

\* a round trip that kept a non-empty real directory and linked a mod again
C21_Witness ==
    /\ RoundDone /\ last.again = "round"
    /\ last.seen = {"ModA", "modb.esp"}
    /\ dst["ModA"] = "fulldir"
    /\ dst["modb.esp"] = "link" /\ Logged("modb.esp", "OK", "OK")

\* the precondition is needed: a round trip with a refused link operation
\* that lost an installed mod
C21_RefusedWitness ==
    /\ RoundDone /\ last.again = "round_refused"
    /\ InstalledNames(FS) # last.seen

====
